---- MODULE Spec2Model ----
(***************************************************************************)
(* Durable block store of the mixnet client (storage/db.go): the egress    *)
(* bucket "outgoing", the per-account ingress bucket and the record codec, *)
(* over a model of the bolt engine's buckets (ordered byte-string keys,    *)
(* a persistent per-bucket sequence, managed transactions).                *)
(***************************************************************************)
EXTENDS Integers, Sequences, FiniteSets, TLC

VARIABLES
    db,       \* bucket name -> [sequence, kv]: the on-disk bolt file
    proc,     \* "open" | "closed" | "panicked": the process holding the Store
    ret,      \* what the last Store call returned to its caller
    issued,   \* block IDs returned by successful PutEgressBlock calls, in order
    frags,    \* account -> the (key, fragment) pairs put by PutIngressBlock and
              \* not removed since
    used,     \* account -> every key PutIngressBlock ever stored under
    mailed,   \* account -> the messages PutMessage stored, in call order
    wf,       \* the reassembly process: its position and what it fetched
    built,    \* the mailbox messages the reassembly process wrote, each with
              \* the fragment keys it was built from
    thr,      \* concurrent PutEgressBlock callers: position and transaction
    dm,       \* a DeleteMessages call in progress
    rec,      \* codec run: the StorageBlock handed to ToBytes
    enc,      \* codec run: the bytes ToBytes produced
    dec       \* codec run: what FromBytes returned for enc

vars == <<db, proc, ret, issued, frags, used, mailed, wf, built, thr, dm, rec, enc, dec>>

storeVars == <<db, proc, ret, issued, frags, used>>
codecVars == <<rec, enc, dec>>
flowVars == <<mailed, wf, built, thr, dm>>

----------------------------------------------------------------------------
(* Bounds and program constants *)

BlockIDLength == 8

\* lengths of the fixed-width arrays imported from the sphinx / client
\* constants packages, scaled down
RecipientIDLength == 2
SURBIDLength == 2
MessageIDLength == 1

\* messages put into one mailbox in the mailbox runs: the decimal keys get
\* a second digit
MaxMailbox == 10

\* messages the reassembly process writes per mailbox in the reassembly runs
MaxAssembled == 2

\* largest value a bucket's sequence reaches in the egress runs
MaxSeq == 3
\* total number of sequence draws over all buckets in the ingress runs
MaxFrags == 3

----------------------------------------------------------------------------
(* Bytes *)

Min(a, b) == IF a < b THEN a ELSE b

\* [n]byte{}: a zeroed fixed-width array
ZeroBytes(n) == [i \in 1..n |-> 0]

\* Go's builtin copy(dst, src): overwrites the first min(len) elements of
\* dst, dst keeps its length
Copy(dst, src) == [i \in 1..Len(dst) |-> IF i <= Len(src) THEN src[i] ELSE dst[i]]

RECURSIVE BigEndian(_, _)
\* the low n bytes of v, most significant first
BigEndian(v, n) == IF n = 0 THEN <<>> ELSE Append(BigEndian(v \div 256, n - 1), v % 256)

\* binary.BigEndian.PutUint64(blockID[:], id)
PutUint64(id) == BigEndian(id, BlockIDLength)

RECURSIVE Uint64(_)
\* the value of a byte string read as a big-endian unsigned integer
Uint64(bs) == IF Len(bs) = 0 THEN 0 ELSE Uint64(SubSeq(bs, 1, Len(bs) - 1)) * 256 + bs[Len(bs)]

RECURSIVE Itoa(_)
\* strconv.Itoa for n >= 0: the ASCII codes of the decimal digits
Itoa(n) == IF n < 10 THEN <<48 + n>> ELSE Append(Itoa(n \div 10), 48 + (n % 10))

\* bytes.Compare(a, b) < 0: the order of keys inside a bucket
BytesLess(a, b) ==
    \E i \in 1..(Min(Len(a), Len(b)) + 1) :
        /\ \A j \in 1..(i - 1) : a[j] = b[j]
        /\ \/ i > Len(a) /\ i <= Len(b)
           \/ i <= Len(a) /\ i <= Len(b) /\ a[i] < b[i]

----------------------------------------------------------------------------
(* encoding/base64, StdEncoding: text is a sequence of alphabet indexes    *)
(* 0..63, 64 stands for the padding character '='                          *)

B64Pad == 64

RECURSIVE EncodeToString(_)
EncodeToString(bs) ==
    IF Len(bs) = 0 THEN <<>>
    ELSE IF Len(bs) = 1 THEN
        <<bs[1] \div 4, (bs[1] % 4) * 16, B64Pad, B64Pad>>
    ELSE IF Len(bs) = 2 THEN
        <<bs[1] \div 4, (bs[1] % 4) * 16 + bs[2] \div 16, (bs[2] % 16) * 4, B64Pad>>
    ELSE
        <<bs[1] \div 4, (bs[1] % 4) * 16 + bs[2] \div 16,
          (bs[2] % 16) * 4 + bs[3] \div 64, bs[3] % 64>>
        \o EncodeToString(SubSeq(bs, 4, Len(bs)))

\* well-formed base64 text: whole quanta, padding only at the very end
B64Valid(s) ==
    /\ Len(s) % 4 = 0
    /\ \A i \in 1..Len(s) : s[i] \in 0..B64Pad
    /\ \A i \in 1..Len(s) : s[i] = B64Pad => i >= Len(s) - 1
    /\ Len(s) > 0 /\ s[Len(s) - 1] = B64Pad => s[Len(s)] = B64Pad

RECURSIVE B64Bytes(_)
B64Bytes(s) ==
    IF Len(s) = 0 THEN <<>>
    ELSE LET b1 == s[1] * 4 + s[2] \div 16
             rest == B64Bytes(SubSeq(s, 5, Len(s)))
         IN  IF s[3] = B64Pad THEN <<b1>>
             ELSE IF s[4] = B64Pad THEN <<b1, (s[2] % 16) * 16 + s[3] \div 4>>
             ELSE <<b1, (s[2] % 16) * 16 + s[3] \div 4, (s[3] % 4) * 64 + s[4]>> \o rest

\* base64.StdEncoding.DecodeString: (bytes, err)
DecodeString(s) ==
    IF B64Valid(s) THEN [err |-> "nil", val |-> B64Bytes(s)]
    ELSE [err |-> "CorruptInputError", val |-> <<>>]

----------------------------------------------------------------------------
(* Fragment Codec (package crypto/block): a fragment carries the           *)
(* message-grouping identifier and an opaque payload                       *)

\* block.Block.ToBytes: serialize(fragment) -> bytes
BlockToBytes(b) == b.MessageID \o b.Payload

\* block.FromBytes: deserialize(bytes) -> fragment
BlockFromBytes(raw) ==
    IF Len(raw) < MessageIDLength
    THEN [err |-> "MalformedBlock", val |-> <<>>]
    ELSE [err |-> "nil",
          val |-> [MessageID |-> SubSeq(raw, 1, MessageIDLength),
                   Payload |-> SubSeq(raw, MessageIDLength + 1, Len(raw))]]

\* block.Block.ToJsonBlock
ToJsonBlock(b) ==
    [MessageID |-> EncodeToString(b.MessageID), Payload |-> EncodeToString(b.Payload)]

\* block.JsonBlock.ToBlock
ToBlock(jb) ==
    LET mid == DecodeString(jb.MessageID)
        pay == DecodeString(jb.Payload)
    IN  IF mid.err # "nil" THEN [err |-> mid.err, val |-> <<>>]
        ELSE IF pay.err # "nil" THEN [err |-> pay.err, val |-> <<>>]
        ELSE [err |-> "nil",
              val |-> [MessageID |-> Copy(ZeroBytes(MessageIDLength), mid.val),
                       Payload |-> pay.val]]

----------------------------------------------------------------------------
(* Block Record Codec: StorageBlock <-> JsonStorageBlock <-> bytes         *)

\* (s *StorageBlock) ToJsonStorageBlock
ToJsonStorageBlock(s) ==
    [BlockID           |-> EncodeToString(s.BlockID),
     Sender            |-> s.Sender,
     SenderProvider    |-> s.SenderProvider,
     Recipient         |-> s.Recipient,
     RecipientProvider |-> s.RecipientProvider,
     RecipientID       |-> EncodeToString(s.RecipientID),
     SendAttempts      |-> s.SendAttempts,
     SURBKeys          |-> EncodeToString(s.SURBKeys),
     SURBID            |-> EncodeToString(s.SURBID),
     JsonBlock         |-> ToJsonBlock(s.Block)]

\* json.Marshal of a JsonStorageBlock: the members in declaration order
Marshal(j) ==
    <<j.BlockID, j.Sender, j.SenderProvider, j.Recipient, j.RecipientProvider,
      j.RecipientID, j.SendAttempts, j.SURBKeys, j.SURBID, j.JsonBlock>>

\* json.Unmarshal into a JsonStorageBlock: (j, err)
Unmarshal(raw) ==
    IF Len(raw) # 10 THEN [err |-> "SyntaxError", val |-> <<>>]
    ELSE [err |-> "nil",
          val |-> [BlockID           |-> raw[1],
                   Sender            |-> raw[2],
                   SenderProvider    |-> raw[3],
                   Recipient         |-> raw[4],
                   RecipientProvider |-> raw[5],
                   RecipientID       |-> raw[6],
                   SendAttempts      |-> raw[7],
                   SURBKeys          |-> raw[8],
                   SURBID            |-> raw[9],
                   JsonBlock         |-> raw[10]]]

\* (s *StorageBlock) ToBytes
ToBytes(s) == Marshal(ToJsonStorageBlock(s))

\* (j *JsonStorageBlock) ToStorageBlock: (s, err).  The struct literal leaves
\* BlockID, RecipientID and SURBID zeroed arrays and SURBKeys a nil slice;
\* the four copy calls then fill what fits.
ToStorageBlock(j) ==
    LET recipientID == DecodeString(j.RecipientID)
        blockID     == DecodeString(j.BlockID)
        surbID      == DecodeString(j.SURBID)
        surbKeys    == DecodeString(j.SURBKeys)
        b           == ToBlock(j.JsonBlock)
    IN  IF recipientID.err # "nil" THEN [err |-> recipientID.err, val |-> <<>>]
        ELSE IF blockID.err # "nil" THEN [err |-> blockID.err, val |-> <<>>]
        ELSE IF surbID.err # "nil" THEN [err |-> surbID.err, val |-> <<>>]
        ELSE IF surbKeys.err # "nil" THEN [err |-> surbKeys.err, val |-> <<>>]
        ELSE IF b.err # "nil" THEN [err |-> b.err, val |-> <<>>]
        ELSE [err |-> "nil",
              val |-> [BlockID           |-> Copy(ZeroBytes(BlockIDLength), blockID.val),
                       Sender            |-> j.Sender,
                       SenderProvider    |-> j.SenderProvider,
                       Recipient         |-> j.Recipient,
                       RecipientProvider |-> j.RecipientProvider,
                       RecipientID       |-> Copy(ZeroBytes(RecipientIDLength), recipientID.val),
                       SendAttempts      |-> j.SendAttempts % 256,
                       SURBKeys          |-> Copy(<<>>, surbKeys.val),
                       SURBID            |-> Copy(ZeroBytes(SURBIDLength), surbID.val),
                       Block             |-> b.val]]

\* FromBytes: (s, err)
FromBytes(raw) ==
    LET j == Unmarshal(raw)
    IN  IF j.err # "nil" THEN [err |-> j.err, val |-> <<>>]
        ELSE ToStorageBlock(j.val)

----------------------------------------------------------------------------
(* Inputs *)

\* a fixed-width array holding the pattern v, v+1, ...
Pattern(v, n) == [i \in 1..n |-> (v + i - 1) % 256]

MessageIDs == {Pattern(1, MessageIDLength), Pattern(2, MessageIDLength)}
M1 == Pattern(1, MessageIDLength)
M2 == Pattern(2, MessageIDLength)

\* fragments as the fragment codec hands them over
Blocks == [MessageID : MessageIDs, Payload : {<<10>>, <<11, 12>>}]

\* every StorageBlock the codec runs are given
StorageBlocks ==
    [BlockID           : {ZeroBytes(BlockIDLength), PutUint64(2)},
     Sender            : {"alice"},
     SenderProvider    : {"acme.com"},
     Recipient         : {"bob"},
     RecipientProvider : {"nsa.gov"},
     RecipientID       : {ZeroBytes(RecipientIDLength), Pattern(1, RecipientIDLength)},
     SendAttempts      : {0, 255},
     SURBKeys          : {<<>>, <<9>>, <<9, 8, 7>>},
     SURBID            : {ZeroBytes(SURBIDLength), Pattern(250, SURBIDLength)},
     Block             : {b \in Blocks : b.Payload = <<10>>}]

----------------------------------------------------------------------------
(* The bolt engine: the file is a map from bucket names to buckets; a      *)
(* bucket has a persistent sequence and byte-string keys kept in           *)
(* bytes.Compare order.  Db.Update / Db.View run one closure as one        *)
(* transaction: it commits when the closure returns nil and rolls back     *)
(* when it returns an error or panics.                                     *)

NoBuckets == [n \in {} |-> 0]
NoKeys == [k \in {} |-> << >>]

\* the registered accounts
Accounts == {"alice", "bob"}

\* the goroutines calling PutEgressBlock at the same time
Threads == {"t1", "t2"}

\* a caller that is not inside a Store call
Idle == [pc |-> "idle"]

NoResult == [op |-> "none", err |-> "nil"]

\* a fresh file opened by New: no bucket exists yet
InitStoreVars ==
    /\ db = NoBuckets
    /\ proc = "open"
    /\ ret = NoResult
    /\ issued = << >>
    /\ frags = [a \in Accounts |-> {}]
    /\ used = [a \in Accounts |-> {}]
    /\ mailed = [a \in Accounts |-> << >>]
    /\ wf = Idle
    /\ built = {}
    /\ thr = [t \in Threads |-> Idle]
    /\ dm = Idle

\* tx.Bucket(name) != nil
HasBucket(d, name) == name \in DOMAIN d

\* tx.CreateBucket semantics on an existing name: the bucket starts over
CreateBucketIfNotExists_Recreates(d, name) ==
    [n \in DOMAIN d \cup {name} |->
        IF n = name THEN [sequence |-> 0, kv |-> NoKeys] ELSE d[n]]

\* tx.CreateBucketIfNotExists(name)
CreateBucketIfNotExists(d, name) ==
    IF HasBucket(d, name) THEN d
    ELSE [n \in DOMAIN d \cup {name} |->
            IF n = name THEN [sequence |-> 0, kv |-> NoKeys] ELSE d[n]]

\* a sequence derived from the number of stored keys: values come back
\* after deletions
NextSequence_FromCount(b) == [b EXCEPT !.sequence = Cardinality(DOMAIN b.kv) + 1]

\* bucket.NextSequence(): the bucket with its sequence advanced; the value
\* returned is the new sequence
NextSequence(b) == [b EXCEPT !.sequence = @ + 1]

\* bucket.Put(key, value)
BucketPut(b, key, value) ==
    [b EXCEPT !.kv = [k \in DOMAIN b.kv \cup {key} |-> IF k = key THEN value ELSE b.kv[k]]]

\* bucket.Get(key): nil (length 0) for an absent key
BucketGet(b, key) == IF key \in DOMAIN b.kv THEN b.kv[key] ELSE << >>

\* a delete that reports success and leaves the key in place
BucketDelete_Keeps(b, key) == b

\* bucket.Delete(key): nil error also when the key is absent
BucketDelete(b, key) == [b EXCEPT !.kv = [k \in DOMAIN b.kv \ {key} |-> b.kv[k]]]

\* a managed transaction that keeps what its closure wrote before failing
DbUpdate_NoRollback(d, tx) == tx.db

\* db.Update(fn): tx is what the closure returned and the file as the
\* closure left it; commit on nil, roll back on an error
DbUpdate(d, tx) == IF tx.err = "nil" THEN tx.db ELSE d

RECURSIVE SortKeys(_)
\* the keys of a set in bytes.Compare order
SortKeys(ks) ==
    IF ks = {} THEN << >>
    ELSE LET first == CHOOSE k \in ks : \A o \in ks \ {k} : BytesLess(k, o)
         IN  <<first>> \o SortKeys(ks \ {first})

RECURSIVE Reverse(_)
Reverse(q) == IF Len(q) = 0 THEN << >> ELSE Append(Reverse(Tail(q)), Head(q))

\* a cursor walked from c.Last() with c.Prev()
CursorKeys_Backwards(b) == Reverse(SortKeys(DOMAIN b.kv))

\* for k, _ := c.First(); k != nil; k, _ = c.Next(): the keys a cursor visits
CursorKeys(b) == SortKeys(DOMAIN b.kv)

----------------------------------------------------------------------------
(* Egress storage *)

EgressBucketName == "outgoing"

\* GetKeys without the nil-bucket check: a missing bucket reads as empty
GetKeysView_NoNilCheck(d) ==
    LET ks == IF HasBucket(d, EgressBucketName) THEN CursorKeys(d[EgressBucketName]) ELSE << >>
    IN  [err |-> "nil",
         val |-> [i \in 1..Len(ks) |-> Copy(ZeroBytes(BlockIDLength), ks[i])]]

\* the closure of GetKeys under db.View: (keys, err)
GetKeysView(d) ==
    IF ~HasBucket(d, EgressBucketName)
    THEN [err |-> "GetKeys failed to get the bucket", val |-> << >>]
    ELSE LET ks == CursorKeys(d[EgressBucketName])
         IN  [err |-> "nil",
              val |-> [i \in 1..Len(ks) |-> Copy(ZeroBytes(BlockIDLength), ks[i])]]

\* the closure of Get under db.View: (bytes, err); b.Get on the nil bucket
\* dereferences nil
GetView(d, blockID) ==
    IF ~HasBucket(d, EgressBucketName)
    THEN [err |-> "panic", val |-> << >>]
    ELSE LET v == BucketGet(d[EgressBucketName], blockID)
         IN  [err |-> "nil", val |-> Copy([i \in 1..Len(v) |-> 0], v)]

\* the records handed to PutEgressBlock and Update
EgressInputs ==
    {s \in StorageBlocks :
        /\ s.RecipientID = Pattern(1, RecipientIDLength)
        /\ s.SURBID = Pattern(250, SURBIDLength)
        /\ s.Block.MessageID = M1
        /\ \/ s.SendAttempts = 0 /\ s.SURBKeys = << >> /\ s.BlockID = ZeroBytes(BlockIDLength)
           \/ s.SendAttempts = 255 /\ s.SURBKeys = <<9>> /\ s.BlockID = PutUint64(2)}

\* the block IDs callers pass to Update
UpdateIDs == {PutUint64(2), PutUint64(256)}

\* the block IDs callers pass to Get and Remove
BlockIDs == {PutUint64(i) : i \in 1..MaxSeq} \cup UpdateIDs

\* New: bolt.Open of the existing file after Close or after the process died
New ==
    /\ proc # "open"
    /\ proc' = "open"
    /\ ret' = [op |-> "New", err |-> "nil"]
    /\ UNCHANGED <<db, issued, frags, used, codecVars, flowVars>>

Close ==
    /\ proc = "open"
    /\ proc' = "closed"
    /\ ret' = [op |-> "Close", err |-> "nil"]
    /\ UNCHANGED <<db, issued, frags, used, codecVars, flowVars>>

PutEgressBlock(b) ==
    /\ proc = "open"
    /\ LET d1      == CreateBucketIfNotExists(db, EgressBucketName)
           bucket  == NextSequence(d1[EgressBucketName])
           id      == bucket.sequence
           blockID == PutUint64(id)
           value   == ToBytes([b EXCEPT !.BlockID = blockID])
       IN  /\ id <= MaxSeq
           /\ db' = [d1 EXCEPT ![EgressBucketName] = BucketPut(bucket, blockID, value)]
           /\ ret' = [op |-> "PutEgressBlock", arg |-> b, err |-> "nil", val |-> blockID]
           /\ issued' = Append(issued, blockID)
    /\ UNCHANGED <<proc, frags, used, codecVars, flowVars>>

\* Update opening its bucket the way PutEgressBlock does
Update_CreatesBucket(blockID, b) ==
    /\ proc = "open"
    /\ db' = [CreateBucketIfNotExists(db, EgressBucketName)
                EXCEPT ![EgressBucketName] = BucketPut(@, blockID, ToBytes(b))]
    /\ ret' = [op |-> "Update", id |-> blockID, arg |-> b, err |-> "nil"]
    /\ UNCHANGED <<proc, issued, frags, used, codecVars, flowVars>>

Update(blockID, b) ==
    /\ proc = "open"
    /\ IF ~HasBucket(db, EgressBucketName)
       THEN /\ ret' = [op |-> "Update", id |-> blockID, arg |-> b,
                       err |-> "Update failed to get the bucket"]
            /\ UNCHANGED db
       ELSE /\ db' = [db EXCEPT ![EgressBucketName] = BucketPut(@, blockID, ToBytes(b))]
            /\ ret' = [op |-> "Update", id |-> blockID, arg |-> b, err |-> "nil"]
    /\ UNCHANGED <<proc, issued, frags, used, codecVars, flowVars>>

GetKeys ==
    /\ proc = "open"
    /\ ret' = [op |-> "GetKeys"] @@ GetKeysView(db)
    /\ UNCHANGED <<db, proc, issued, frags, used, codecVars, flowVars>>

Get(blockID) ==
    /\ proc = "open"
    /\ LET r == GetView(db, blockID)
       IN  /\ ret' = [op |-> "Get", id |-> blockID] @@ r
           /\ proc' = IF r.err = "panic" THEN "panicked" ELSE proc
    /\ UNCHANGED <<db, issued, frags, used, codecVars, flowVars>>

Remove(blockID) ==
    /\ proc = "open"
    /\ IF ~HasBucket(db, EgressBucketName)
       THEN /\ ret' = [op |-> "Remove", id |-> blockID, err |-> "panic"]
            /\ proc' = "panicked"
            /\ UNCHANGED db
       ELSE /\ db' = [db EXCEPT ![EgressBucketName] = BucketDelete(@, blockID)]
            /\ ret' = [op |-> "Remove", id |-> blockID, err |-> "nil"]
            /\ UNCHANGED proc
    /\ UNCHANGED <<issued, frags, used, codecVars, flowVars>>

InitEgress ==
    /\ InitStoreVars
    /\ rec = CHOOSE s \in StorageBlocks : TRUE
    /\ enc = << >>
    /\ dec = NoResult

NextEgress ==
    \/ New
    \/ Close
    \/ \E b \in EgressInputs : PutEgressBlock(b)
    \/ \E id \in UpdateIDs, b \in EgressInputs : Update(id, b)
    \/ GetKeys
    \/ \E id \in BlockIDs : Get(id)
    \/ \E id \in BlockIDs : Remove(id)

SpecEgress == InitEgress /\ [][NextEgress]_vars

----------------------------------------------------------------------------
(* Properties of the egress store *)

Range(q) == {q[i] : i \in 1..Len(q)}

\* the position of k in the list q
Pos(q, k) == CHOOSE i \in 1..Len(q) : q[i] = k

\* the keys stored in the egress bucket, none while the bucket is missing
EgressKeys(d) == IF HasBucket(d, EgressBucketName) THEN DOMAIN d[EgressBucketName].kv ELSE {}

\* C1: the block IDs returned by successive successful PutEgressBlock calls
\* are strictly increasing as big-endian integers, hence pairwise distinct
\* and never returned twice, whatever Update, Remove, Close and New did in
\* between
C1_IssuedIncreasing ==
    \A i, j \in 1..Len(issued) :
        i < j => Uint64(issued[i]) < Uint64(issued[j]) /\ issued[i] # issued[j]

\* an ID was issued after the record of an earlier ID had been removed
C1_Witness ==
    /\ ret.op = "PutEgressBlock"
    /\ Len(issued) >= 3
    /\ issued[1] \notin EgressKeys(db)

\* C2: once Remove(id) has returned, GetKeys does not list id; a Remove of
\* a key that is already absent returns nil and leaves the file as it was
C2_RemoveThenAbsent ==
    [][\A id \in BlockIDs :
          Remove(id) /\ ret'.err # "panic" =>
             /\ ret'.err = "nil"
             /\ GetKeysView(db').err = "nil"
             /\ id \notin Range(GetKeysView(db').val)
             /\ (id \notin EgressKeys(db) => db' = db)]_vars

\* the one record of the store was put, listed and removed: the list is empty
C2_Witness ==
    /\ ret.op = "Remove" /\ ret.err = "nil"
    /\ Len(issued) = 1 /\ ret.id = issued[1]
    /\ GetKeysView(db).err = "nil" /\ GetKeysView(db).val = << >>

\* C3: GetKeys lists exactly the keys of the egress bucket in ascending
\* byte order, and the IDs issued by PutEgressBlock appear in it in the
\* order in which they were issued
C3_ListInKeyOrder ==
    GetKeysView(db).err = "nil" =>
        LET ks == GetKeysView(db).val
        IN  /\ Range(ks) = EgressKeys(db)
            /\ \A i, j \in 1..Len(ks) : i < j => BytesLess(ks[i], ks[j])
            /\ \A i, j \in 1..Len(issued) :
                  i < j /\ issued[i] \in Range(ks) /\ issued[j] \in Range(ks)
                     => Pos(ks, issued[i]) < Pos(ks, issued[j])

\* a listing of issued IDs together with a key that Update created
C3_Witness ==
    /\ ret.op = "GetKeys" /\ ret.err = "nil"
    /\ Len(ret.val) >= 3
    /\ PutUint64(256) \in Range(ret.val)
    /\ Len(issued) >= 2 /\ issued[1] \in Range(ret.val) /\ issued[2] \in Range(ret.val)

\* C4 as claimed: whenever no egress record is pending, a fresh store
\* included, GetKeys returns an empty list and no error
C4_EmptyListNeverErrors ==
    EgressKeys(db) = {} => GetKeysView(db).err = "nil" /\ GetKeysView(db).val = << >>

\* C4: GetKeys returns an empty list and no error when the egress bucket
\* exists and holds no record, and an error while the bucket was never
\* created
C4_EmptyList ==
    /\ HasBucket(db, EgressBucketName) /\ EgressKeys(db) = {}
          => GetKeysView(db).err = "nil" /\ GetKeysView(db).val = << >>
    /\ ~HasBucket(db, EgressBucketName) => GetKeysView(db).err # "nil"

\* GetKeys was called on an existing, emptied bucket
C4_Witness ==
    /\ ret.op = "GetKeys" /\ ret.err = "nil" /\ ret.val = << >>
    /\ HasBucket(db, EgressBucketName)
    /\ Len(issued) >= 1

\* C5: Get returns zero-length bytes and no error for an absent key, and
\* the bytes last stored for a present key
C5_GetAbsentIsEmpty ==
    ret.op = "Get" =>
        /\ ret.err = "nil"
        /\ IF ret.id \in EgressKeys(db)
           THEN ret.val = db[EgressBucketName].kv[ret.id]
           ELSE Len(ret.val) = 0

\* C6: Update fails and changes nothing while the egress bucket does not
\* exist; when it exists Update succeeds and Get then returns the encoding
\* of the record, whether or not the key was present
C6_UpdateUpserts ==
    [][\A id \in UpdateIDs, b \in EgressInputs :
          Update(id, b) =>
             IF ~HasBucket(db, EgressBucketName)
             THEN ret'.err # "nil" /\ db' = db
             ELSE /\ ret'.err = "nil"
                  /\ GetView(db', id).err = "nil"
                  /\ GetView(db', id).val = ToBytes(b)]_vars

\* Update created a key that PutEgressBlock never issued
C6_Witness ==
    /\ ret.op = "Update" /\ ret.err = "nil"
    /\ ret.id \notin Range(issued)
    /\ GetView(db, ret.id).val = ToBytes(ret.arg)

\* C8: the bytes Get returns for the ID PutEgressBlock just returned are
\* not empty and decode to the record that was put, with BlockID the
\* returned ID
C8_PutThenGet ==
    ret.op = "PutEgressBlock" =>
        LET r == GetView(db, ret.val)
            d == FromBytes(r.val)
        IN  /\ r.err = "nil"
            /\ Len(r.val) > 0
            /\ d.err = "nil"
            /\ d.val = [ret.arg EXCEPT !.BlockID = ret.val]

\* C13: no Store operation panics when its bucket does not exist: every
\* call returns a value or an error to its caller
C13_NoPanic == ret.err # "panic" /\ proc # "panicked"

\* C15: a stored egress record stays listed with the same bytes over every
\* step that is not an Update or a Remove of its own ID
C15_RecordKept ==
    [][\A id \in EgressKeys(db) :
          ~(ret'.op \in {"Update", "Remove"} /\ ret'.id = id) =>
             /\ id \in EgressKeys(db')
             /\ db'[EgressBucketName].kv[id] = db[EgressBucketName].kv[id]]_vars

\* C21: the block ID a PutEgressBlock call assigns is not a key of the
\* egress bucket right before the call, so the call adds exactly one record
C21_PutNeverOverwrites ==
    [][Len(issued') = Len(issued) + 1 =>
          /\ ret'.val \notin EgressKeys(db)
          /\ Cardinality(EgressKeys(db')) = Cardinality(EgressKeys(db)) + 1]_vars

\* C22: every record stored in the egress bucket decodes to a record whose
\* BlockID field equals the key it is stored under
C22_BlockIDIsKey ==
    \A id \in EgressKeys(db) :
        LET d == FromBytes(db[EgressBucketName].kv[id])
        IN  d.err = "nil" /\ d.val.BlockID = id

----------------------------------------------------------------------------
(* Ingress storage *)

\* fmt.Sprintf("%s_ingress_blocks", accountName)
IngressBucketName(accountName) == accountName \o "_ingress_blocks"

\* one mailbox bucket for all accounts
Pop3BucketName_Shared(accountName) == "pop3"

\* fmt.Sprintf("%s_pop3", accountName)
Pop3BucketName(accountName) == accountName \o "_pop3"

\* the sum of the sequences of all buckets
RECURSIVE TotalSequence(_, _)
TotalSequence(d, names) ==
    IF names = {} THEN 0
    ELSE LET n == CHOOSE x \in names : TRUE
         IN  d[n].sequence + TotalSequence(d, names \ {n})

RECURSIVE CreateAll(_, _)
\* the loop of CreateAccountBuckets: two buckets per account name
CreateAll(d, accounts) ==
    IF Len(accounts) = 0 THEN d
    ELSE CreateAll(
            CreateBucketIfNotExists(
                CreateBucketIfNotExists(d, IngressBucketName(Head(accounts))),
                Pop3BucketName(Head(accounts))),
            Tail(accounts))

CreateAccountBuckets(accounts) ==
    /\ proc = "open"
    /\ db' = CreateAll(db, accounts)
    /\ ret' = [op |-> "CreateAccountBuckets", accounts |-> accounts, err |-> "nil"]
    /\ UNCHANGED <<proc, issued, frags, used, codecVars, flowVars>>

PutIngressBlock(accountName, b) ==
    /\ proc = "open"
    /\ IF ~HasBucket(db, IngressBucketName(accountName))
       THEN /\ ret' = [op |-> "PutIngressBlock", account |-> accountName, arg |-> b,
                       err |-> "ingress store put failure: bucket not found"]
            /\ UNCHANGED <<db, frags, used>>
       ELSE LET bucket == NextSequence(db[IngressBucketName(accountName)])
                seq    == bucket.sequence
                key    == Itoa(seq)
            IN  /\ TotalSequence(db, DOMAIN db) < MaxFrags
                /\ db' = [db EXCEPT ![IngressBucketName(accountName)] =
                                        BucketPut(bucket, key, BlockToBytes(b))]
                /\ ret' = [op |-> "PutIngressBlock", account |-> accountName, arg |-> b,
                           err |-> "nil"]
                /\ frags' = [frags EXCEPT ![accountName] =
                                {p \in @ : p.key # key} \cup {[key |-> key, block |-> b]}]
                /\ used' = [used EXCEPT ![accountName] = @ \cup {key}]
    /\ UNCHANGED <<proc, issued, codecVars, flowVars>>

RECURSIVE ScanBlocks_NoFilter(_, _, _)
\* the cursor loop without the comparison of the message ID
ScanBlocks_NoFilter(bucket, ks, messageID) ==
    IF Len(ks) = 0 THEN [err |-> "nil", blocks |-> << >>, keys |-> << >>]
    ELSE LET b    == BlockFromBytes(bucket.kv[Head(ks)])
             rest == ScanBlocks_NoFilter(bucket, Tail(ks), messageID)
         IN  IF b.err # "nil" THEN [err |-> b.err, blocks |-> << >>, keys |-> << >>]
             ELSE IF rest.err # "nil" THEN rest
             ELSE [err |-> "nil", blocks |-> <<b.val>> \o rest.blocks,
                   keys |-> <<Head(ks)>> \o rest.keys]

RECURSIVE ScanBlocks(_, _, _)
\* the cursor loop of GetIngressBlocks over the keys ks still to visit:
\* (blocks, keys, err)
ScanBlocks(bucket, ks, messageID) ==
    IF Len(ks) = 0 THEN [err |-> "nil", blocks |-> << >>, keys |-> << >>]
    ELSE LET b    == BlockFromBytes(bucket.kv[Head(ks)])
             rest == ScanBlocks(bucket, Tail(ks), messageID)
         IN  IF b.err # "nil" THEN [err |-> b.err, blocks |-> << >>, keys |-> << >>]
             ELSE IF rest.err # "nil" THEN rest
             ELSE IF b.val.MessageID = messageID
                  THEN [err |-> "nil", blocks |-> <<b.val>> \o rest.blocks,
                        keys |-> <<Head(ks)>> \o rest.keys]
                  ELSE rest

\* the closure of GetIngressBlocks under db.View: (blocks, keys, err)
GetIngressBlocksView(d, accountName, messageID) ==
    IF ~HasBucket(d, IngressBucketName(accountName))
    THEN [err |-> "boltdb bucket for that account doesn't exist",
          blocks |-> << >>, keys |-> << >>]
    ELSE LET bucket == d[IngressBucketName(accountName)]
         IN  ScanBlocks(bucket, CursorKeys(bucket), messageID)

GetIngressBlocks(accountName, messageID) ==
    /\ proc = "open"
    /\ ret' = [op |-> "GetIngressBlocks", account |-> accountName, mid |-> messageID]
                 @@ GetIngressBlocksView(db, accountName, messageID)
    /\ UNCHANGED <<db, proc, issued, frags, used, codecVars, flowVars>>

\* a loop that returns after its first b.Delete
DeleteAll_FirstOnly(bucket, keys) ==
    IF Len(keys) = 0 THEN bucket ELSE BucketDelete(bucket, Head(keys))

RECURSIVE DeleteAll(_, _)
\* the loop of RemoveBlocks: b.Delete(key) for every listed key
DeleteAll(bucket, keys) ==
    IF Len(keys) = 0 THEN bucket
    ELSE DeleteAll(BucketDelete(bucket, Head(keys)), Tail(keys))

RemoveBlocks(accountName, keys) ==
    /\ proc = "open"
    /\ IF ~HasBucket(db, IngressBucketName(accountName))
       THEN /\ ret' = [op |-> "RemoveBlocks", account |-> accountName, keys |-> keys,
                       err |-> "boltdb bucket for that account doesn't exist"]
            /\ UNCHANGED <<db, frags>>
       ELSE /\ db' = [db EXCEPT ![IngressBucketName(accountName)] = DeleteAll(@, keys)]
            /\ ret' = [op |-> "RemoveBlocks", account |-> accountName, keys |-> keys,
                       err |-> "nil"]
            /\ frags' = [frags EXCEPT ![accountName] = {p \in @ : p.key \notin Range(keys)}]
    /\ UNCHANGED <<proc, issued, used, codecVars, flowVars>>

\* the account lists handed to CreateAccountBuckets
AccountLists == {<<"alice">>, <<"bob">>, <<"alice", "bob">>}

\* the key lists callers pass to RemoveBlocks: what GetIngressBlocks
\* returned for some message, or some other short list of sequence keys
KeyLists(d, accountName) ==
    {GetIngressBlocksView(d, accountName, m).keys : m \in MessageIDs}
        \cup {<<Itoa(i)>> : i \in 1..(MaxFrags + 1)}

InitIngress == InitEgress

NextIngress ==
    \/ New
    \/ Close
    \/ \E accounts \in AccountLists : CreateAccountBuckets(accounts)
    \/ \E a \in Accounts, b \in Blocks : PutIngressBlock(a, b)
    \/ \E a \in Accounts, m \in MessageIDs : GetIngressBlocks(a, m)
    \/ \E a \in Accounts : \E keys \in KeyLists(db, a) : RemoveBlocks(a, keys)

SpecIngress == InitIngress /\ [][NextIngress]_vars

----------------------------------------------------------------------------
(* Properties of the ingress store *)

\* the (key, fragment) pairs GetIngressBlocks returns, position by position
ReturnedPairs(g) == {[key |-> g.keys[i], block |-> g.blocks[i]] : i \in 1..Len(g.blocks)}

\* C9: for an account whose buckets exist, GetIngressBlocks returns exactly
\* the fragments put for that account, not removed since, whose MessageID
\* is the requested one, each at the same position as its own key
C9_FragmentsOfMessage ==
    \A a \in Accounts, m \in MessageIDs :
        HasBucket(db, IngressBucketName(a)) =>
            LET g == GetIngressBlocksView(db, a, m)
                expected == {p \in frags[a] : p.block.MessageID = m}
            IN  /\ g.err = "nil"
                /\ Len(g.blocks) = Len(g.keys)
                /\ Len(g.keys) = Cardinality(expected)
                /\ ReturnedPairs(g) = expected

\* the fragments of M1 were fetched with a fragment of M2 put between them
C9_Witness ==
    /\ ret.op = "GetIngressBlocks" /\ ret.err = "nil" /\ ret.mid = M1
    /\ ret.keys = <<Itoa(1), Itoa(3)>>
    /\ \E p \in frags[ret.account] : p.key = Itoa(2) /\ p.block.MessageID = M2

\* C10: RemoveBlocks with the keys GetIngressBlocks returns for a message
\* deletes exactly those entries: the message has no fragment left and the
\* fragments of every other message are returned as before
C10_RemoveFragmentsOfMessage ==
    [][\A a \in Accounts, m \in MessageIDs :
          LET g == GetIngressBlocksView(db, a, m)
          IN  g.err = "nil" /\ RemoveBlocks(a, g.keys) =>
                 /\ ret'.err = "nil"
                 /\ GetIngressBlocksView(db', a, m).err = "nil"
                 /\ GetIngressBlocksView(db', a, m).blocks = << >>
                 /\ GetIngressBlocksView(db', a, m).keys = << >>
                 /\ DOMAIN db'[IngressBucketName(a)].kv =
                       DOMAIN db[IngressBucketName(a)].kv \ Range(g.keys)
                 /\ \A o \in MessageIDs \ {m} :
                       GetIngressBlocksView(db', a, o) = GetIngressBlocksView(db, a, o)]_vars

\* two fragments of one message were removed and the fragment of the other
\* message is still returned
C10_Witness ==
    /\ ret.op = "RemoveBlocks" /\ ret.err = "nil" /\ Len(ret.keys) = 2
    /\ \E m \in MessageIDs :
          /\ GetIngressBlocksView(db, ret.account, m).blocks = << >>
          /\ \E o \in MessageIDs \ {m} :
                Len(GetIngressBlocksView(db, ret.account, o).blocks) = 1

----------------------------------------------------------------------------
(* Mailbox storage *)

\* the closure of Messages under db.View: (messages, err)
MessagesView(d, accountName) ==
    IF ~HasBucket(d, Pop3BucketName(accountName))
    THEN [err |-> "boltdb bucket for that account doesn't exist", val |-> << >>]
    ELSE LET b  == d[Pop3BucketName(accountName)]
             ks == CursorKeys(b)
         IN  [err |-> "nil", val |-> [i \in 1..Len(ks) |-> b.kv[ks[i]]]]

Messages(accountName) ==
    /\ proc = "open"
    /\ ret' = [op |-> "Messages", account |-> accountName] @@ MessagesView(db, accountName)
    /\ UNCHANGED <<db, proc, issued, frags, used, codecVars, flowVars>>

\* a PutMessage that keys the message the way PutEgressBlock keys a block:
\* the sequence as 8 big-endian bytes
PutMessageTx_BigEndianKey(d, accountName, message) ==
    IF ~HasBucket(d, Pop3BucketName(accountName))
    THEN [err |-> "panic", db |-> d]
    ELSE LET b == NextSequence(d[Pop3BucketName(accountName)])
         IN  [err |-> "nil",
              db  |-> [d EXCEPT ![Pop3BucketName(accountName)] =
                                  BucketPut(b, PutUint64(b.sequence), message)]]

\* the transaction of PutMessage: (file, err); b.NextSequence on the nil
\* bucket dereferences nil
PutMessageTx(d, accountName, message) ==
    IF ~HasBucket(d, Pop3BucketName(accountName))
    THEN [err |-> "panic", db |-> d]
    ELSE LET b == NextSequence(d[Pop3BucketName(accountName)])
         IN  [err |-> "nil",
              db  |-> [d EXCEPT ![Pop3BucketName(accountName)] =
                                    BucketPut(b, Itoa(b.sequence), message)]]

PutMessage(accountName, message) ==
    /\ proc = "open"
    /\ LET tx == PutMessageTx(db, accountName, message)
       IN  /\ db' = DbUpdate(db, tx)
           /\ ret' = [op |-> "PutMessage", account |-> accountName, arg |-> message,
                      err |-> tx.err]
           /\ proc' = IF tx.err = "panic" THEN "panicked" ELSE proc
           /\ mailed' = IF tx.err = "nil"
                        THEN [mailed EXCEPT ![accountName] = Append(@, message)]
                        ELSE mailed
    /\ UNCHANGED <<issued, frags, used, codecVars, wf, built, thr, dm>>

\* the transaction of deleteMessage: (file, err); b.Delete on the nil bucket
\* dereferences nil
deleteMessageTx(d, accountName, item) ==
    IF ~HasBucket(d, Pop3BucketName(accountName))
    THEN [err |-> "panic", db |-> d]
    ELSE [err |-> "nil",
          db  |-> [d EXCEPT ![Pop3BucketName(accountName)] = BucketDelete(@, Itoa(item))]]

RECURSIVE DeleteEach(_, _, _)
\* the loop of DeleteMessages: one deleteMessage transaction per item, the
\* first failure ends the call
DeleteEach(d, accountName, items) ==
    IF Len(items) = 0 THEN [err |-> "nil", db |-> d]
    ELSE LET tx == deleteMessageTx(d, accountName, Head(items))
         IN  IF tx.err # "nil" THEN [err |-> tx.err, db |-> DbUpdate(d, tx)]
             ELSE DeleteEach(DbUpdate(d, tx), accountName, Tail(items))

DeleteMessages(accountName, items) ==
    /\ proc = "open"
    /\ LET r == DeleteEach(db, accountName, items)
       IN  /\ db' = r.db
           /\ ret' = [op |-> "DeleteMessages", account |-> accountName, items |-> items,
                      err |-> r.err]
           /\ proc' = IF r.err = "panic" THEN "panicked" ELSE proc
    /\ UNCHANGED <<issued, frags, used, codecVars, flowVars>>

\* RemoveBlocks when the transaction fails after n of its deletes (a
\* b.Delete or the commit returns an error): db.Update rolls back
RemoveBlocksFails(accountName, keys, n) ==
    /\ proc = "open"
    /\ HasBucket(db, IngressBucketName(accountName))
    /\ n \in 0..Len(keys)
    /\ LET tx == [err |-> "transaction failed",
                  db  |-> [db EXCEPT ![IngressBucketName(accountName)] =
                                        DeleteAll(@, SubSeq(keys, 1, n))]]
       IN  /\ db' = DbUpdate(db, tx)
           /\ ret' = [op |-> "RemoveBlocks", account |-> accountName, keys |-> keys,
                      after |-> n, err |-> tx.err]
    /\ UNCHANGED <<proc, issued, frags, used, codecVars, flowVars>>

\* the messages handed to PutMessage
MailInputs == {<<77>>, <<78>>}

\* the index lists handed to DeleteMessages
ItemLists == {<<1>>, <<2, 1>>}

\* key lists for RemoveBlocks in the account runs: what GetIngressBlocks
\* returned for some message, or a list mixing present and absent keys
MixedKeyLists(d, accountName) ==
    {GetIngressBlocksView(d, accountName, m).keys : m \in MessageIDs}
        \cup {<<Itoa(MaxFrags + 1), Itoa(1)>>, <<Itoa(1), Itoa(2)>>}

\* the one message PutMessage is given in the account runs
AccountMailInputs == {<<77>>}

\* the one record PutEgressBlock is given in the account runs
AccountEgressInputs == {s \in EgressInputs : s.SendAttempts = 0}

\* the one fragment per message PutIngressBlock is given in the account runs
AccountBlocks == {b \in Blocks : b.Payload = <<10>>}

InitAccounts == InitEgress

NextAccounts ==
    \/ New
    \/ \E accounts \in AccountLists : CreateAccountBuckets(accounts)
    \/ \E b \in AccountEgressInputs :
          TotalSequence(db, DOMAIN db) < MaxFrags /\ PutEgressBlock(b)
    \/ \E a \in Accounts, b \in AccountBlocks : PutIngressBlock(a, b)
    \/ \E a \in Accounts : \E keys \in MixedKeyLists(db, a) : RemoveBlocks(a, keys)
    \/ \E a \in Accounts : \E keys \in MixedKeyLists(db, a) :
          \E n \in 0..Len(keys) : RemoveBlocksFails(a, keys, n)
    \/ \E a \in Accounts, m \in AccountMailInputs :
          TotalSequence(db, DOMAIN db) < MaxFrags /\ PutMessage(a, m)
    \/ \E a \in Accounts, items \in ItemLists : DeleteMessages(a, items)

SpecAccounts == InitAccounts /\ [][NextAccounts]_vars

----------------------------------------------------------------------------
(* Properties of the account buckets *)

\* the bucket called n is the same before and after the step
SameBucket(n) ==
    /\ HasBucket(db, n) <=> HasBucket(db', n)
    /\ HasBucket(db, n) => db'[n] = db[n]

\* both buckets of every listed account exist
AllCreated(d, accounts) ==
    \A i \in 1..Len(accounts) :
        HasBucket(d, IngressBucketName(accounts[i])) /\ HasBucket(d, Pop3BucketName(accounts[i]))

\* C11: CreateAccountBuckets succeeds, adds exactly the missing buckets of
\* the listed accounts and leaves every existing bucket, its entries and
\* its sequence as they were; for accounts whose buckets exist nothing
\* changes at all
C11_CreateIsIdempotent ==
    [][ret'.op = "CreateAccountBuckets" =>
          LET accounts == ret'.accounts
          IN  CreateAccountBuckets(accounts) =>
                 /\ ret'.err = "nil"
                 /\ \A n \in DOMAIN db : SameBucket(n)
                 /\ DOMAIN db' = DOMAIN db
                         \cup {IngressBucketName(accounts[i]) : i \in 1..Len(accounts)}
                         \cup {Pop3BucketName(accounts[i]) : i \in 1..Len(accounts)}
                 /\ (AllCreated(db, accounts) => db' = db)]_vars

\* CreateAccountBuckets was repeated for an account that holds a fragment
\* and a message
C11_Witness ==
    /\ ret.op = "CreateAccountBuckets" /\ ret.err = "nil"
    /\ \E i \in 1..Len(ret.accounts) :
          /\ HasBucket(db, IngressBucketName(ret.accounts[i]))
          /\ DOMAIN db[IngressBucketName(ret.accounts[i])].kv # {}
          /\ DOMAIN db[Pop3BucketName(ret.accounts[i])].kv # {}

\* C12: PutIngressBlock for an account without fragment bucket returns an
\* error and leaves the file as it was (no bucket, no entry, no sequence
\* draw); with the bucket it stores the fragment under a key never used in
\* that bucket before
C12_PutFragment ==
    [][ret'.op = "PutIngressBlock" =>
          LET a == ret'.account
              b == ret'.arg
              n == IngressBucketName(a)
          IN  PutIngressBlock(a, b) =>
                 IF ~HasBucket(db, n)
                 THEN ret'.err # "nil" /\ db' = db
                 ELSE /\ ret'.err = "nil"
                      /\ \E key \in DOMAIN db'[n].kv :
                            /\ key \notin used[a]
                            /\ key \notin DOMAIN db[n].kv
                            /\ db'[n].kv[key] = BlockToBytes(b)
                            /\ \A k \in DOMAIN db[n].kv :
                                  k \in DOMAIN db'[n].kv /\ db'[n].kv[k] = db[n].kv[k]]_vars

\* a fragment was put after an earlier one of the bucket had been removed
C12_Witness ==
    /\ ret.op = "PutIngressBlock" /\ ret.err = "nil"
    /\ \E k \in used[ret.account] : k \notin DOMAIN db[IngressBucketName(ret.account)].kv
    /\ Cardinality(DOMAIN db[IngressBucketName(ret.account)].kv) >= 2

\* C16: PutIngressBlock, RemoveBlocks, PutMessage and DeleteMessages on an
\* account leave the buckets of every other account and the egress bucket
\* as they were; the fragment operations leave the account's own mailbox
\* bucket alone and the mailbox operations its fragment bucket
C16_AccountsIndependent ==
    [][LET fragmentOp == ret'.op \in {"PutIngressBlock", "RemoveBlocks"}
           mailboxOp  == ret'.op \in {"PutMessage", "DeleteMessages"}
       IN  fragmentOp \/ mailboxOp =>
              LET a == ret'.account
              IN  /\ SameBucket(EgressBucketName)
                  /\ \A o \in Accounts \ {a} :
                        SameBucket(IngressBucketName(o)) /\ SameBucket(Pop3BucketName(o))
                  /\ fragmentOp => SameBucket(Pop3BucketName(a))
                  /\ mailboxOp => SameBucket(IngressBucketName(a))]_vars

\* a message was put for one account while another account holds a
\* fragment and the egress bucket a record
C16_Witness ==
    /\ ret.op = "PutMessage" /\ ret.err = "nil"
    /\ EgressKeys(db) # {}
    /\ \E o \in Accounts \ {ret.account} :
          /\ HasBucket(db, IngressBucketName(o))
          /\ DOMAIN db[IngressBucketName(o)].kv # {}
    /\ db[Pop3BucketName(ret.account)].sequence # db[IngressBucketName(ret.account)].sequence

\* C18: RemoveBlocks deletes every listed key, absent ones tolerated, or,
\* when it returns an error (no bucket, or the transaction failed part
\* way), deletes none of them
C18_RemoveBlocksAtomic ==
    [][ret'.op = "RemoveBlocks" =>
          LET a    == ret'.account
              keys == ret'.keys
              n    == IngressBucketName(a)
          IN  IF ret'.err = "nil"
              THEN /\ HasBucket(db, n)
                   /\ DOMAIN db'[n].kv = DOMAIN db[n].kv \ Range(keys)
                   /\ \A k \in DOMAIN db'[n].kv : db'[n].kv[k] = db[n].kv[k]
                   /\ \A o \in DOMAIN db \ {n} : SameBucket(o)
              ELSE db' = db]_vars

\* a RemoveBlocks transaction failed after it had deleted two stored keys
C18_Witness ==
    /\ ret.op = "RemoveBlocks" /\ ret.err = "transaction failed"
    /\ ret.after = 2
    /\ Range(ret.keys) \subseteq DOMAIN db[IngressBucketName(ret.account)].kv

\* C23: when Messages lists message m in place i, DeleteMessages with the
\* one item i removes the entry of m: the mailbox then lists one message
\* fewer and the key m was stored under is gone
C23_DeleteByPlace ==
    [][(/\ ret'.op = "DeleteMessages" /\ Len(ret'.items) = 1
        /\ HasBucket(db, Pop3BucketName(ret'.account))
        /\ ret'.items[1] \in 1..Len(MessagesView(db, ret'.account).val)) =>
          LET b == db[Pop3BucketName(ret'.account)]
              m == CursorKeys(b)[ret'.items[1]]
          IN  /\ ret'.err = "nil"
              /\ Len(MessagesView(db', ret'.account).val) =
                    Len(MessagesView(db, ret'.account).val) - 1
              /\ m \notin DOMAIN db'[Pop3BucketName(ret'.account)].kv]_vars

----------------------------------------------------------------------------
(* The reassembly process: fetch the fragments of a message, write the     *)
(* reassembled message to the mailbox, remove the fragments; three Store   *)
(* calls, the process may die between any two of them                      *)

RECURSIVE Reassemble(_)
\* the fragment codec's defragmentation: the payloads in fragment order
Reassemble(blocks) ==
    IF Len(blocks) = 0 THEN << >> ELSE Head(blocks).Payload \o Reassemble(Tail(blocks))

\* the transaction of RemoveBlocks: (file, err)
RemoveBlocksTx(d, accountName, keys) ==
    IF ~HasBucket(d, IngressBucketName(accountName))
    THEN [err |-> "boltdb bucket for that account doesn't exist", db |-> d]
    ELSE [err |-> "nil",
          db  |-> [d EXCEPT ![IngressBucketName(accountName)] = DeleteAll(@, keys)]]

\* every key stored anywhere in the file
AllKeys(d) == UNION {DOMAIN d[n].kv : n \in DOMAIN d}

\* write transactions committed since the reassembly process fetched: each
\* write of these runs draws one sequence value
WritesSince(d, seen) == TotalSequence(d, DOMAIN d) - seen

\* GetIngressBlocks appends the cursor's k without copying it: the slice
\* points into the page that was mapped during the View. The first later
\* write transaction frees that page, the next one may write its own data
\* there; from then on the slice reads as any bytes of its length: its old
\* bytes, another stored key, or bytes that are no key
DanglingKey(d, key, writes) ==
    IF writes < 2 THEN {key}
    ELSE {key, ZeroBytes(Len(key))} \cup {k \in AllKeys(d) : Len(k) = Len(key)}

\* what a list of such slices reads as when RemoveBlocks ranges over it
DanglingKeys(d, keys, writes) ==
    {ks \in [1..Len(keys) -> AllKeys(d) \cup Range(keys) \cup {ZeroBytes(1)}] :
        \A i \in 1..Len(keys) : ks[i] \in DanglingKey(d, keys[i], writes)}

\* step 1: GetIngressBlocks for a message that has fragments
ReassemblyFetch(accountName, messageID) ==
    /\ proc = "open" /\ wf.pc = "idle"
    /\ LET g == GetIngressBlocksView(db, accountName, messageID)
       IN  /\ g.err = "nil" /\ Len(g.blocks) > 0
           /\ wf' = [pc |-> "fetched", account |-> accountName, mid |-> messageID,
                     blocks |-> g.blocks, keys |-> g.keys,
                     seen |-> TotalSequence(db, DOMAIN db)]
           /\ ret' = [op |-> "GetIngressBlocks", account |-> accountName,
                      mid |-> messageID] @@ g
    /\ UNCHANGED <<db, proc, issued, frags, used, codecVars, mailed, built, thr, dm>>

\* step 2: PutMessage of the reassembled message
ReassemblyStore ==
    /\ proc = "open" /\ wf.pc = "fetched"
    /\ LET message == Reassemble(wf.blocks)
           tx      == PutMessageTx(db, wf.account, message)
       IN  /\ HasBucket(db, Pop3BucketName(wf.account))
                 => db[Pop3BucketName(wf.account)].sequence < MaxAssembled
           /\ db' = DbUpdate(db, tx)
           /\ ret' = [op |-> "PutMessage", account |-> wf.account, arg |-> message,
                      err |-> tx.err]
           /\ IF tx.err = "nil"
              THEN /\ wf' = [wf EXCEPT !.pc = "stored"]
                   /\ mailed' = [mailed EXCEPT ![wf.account] = Append(@, message)]
                   /\ built' = built \cup
                         {[account |-> wf.account, message |-> message,
                           msgkey  |-> Itoa(db[Pop3BucketName(wf.account)].sequence + 1),
                           fragkeys |-> Range(wf.keys)]}
                   /\ UNCHANGED proc
              ELSE /\ wf' = Idle
                   /\ proc' = "panicked"
                   /\ UNCHANGED <<mailed, built>>
    /\ UNCHANGED <<issued, frags, used, codecVars, thr, dm>>

\* step 3: RemoveBlocks with the key slices that step 1 returned
ReassemblyRemove ==
    /\ proc = "open" /\ wf.pc = "stored"
    /\ \E keys \in DanglingKeys(db, wf.keys, WritesSince(db, wf.seen)) :
         LET tx == RemoveBlocksTx(db, wf.account, keys)
         IN  /\ db' = DbUpdate(db, tx)
             /\ ret' = [op |-> "RemoveBlocks", account |-> wf.account, keys |-> keys,
                        fetched |-> wf.keys, err |-> tx.err]
             /\ frags' = IF tx.err = "nil"
                         THEN [frags EXCEPT ![wf.account] = {p \in @ : p.key \notin Range(keys)}]
                         ELSE frags
    /\ wf' = Idle
    /\ UNCHANGED <<proc, issued, used, codecVars, mailed, built, thr, dm>>

\* the process dies: what it held in memory is gone, the file stays
Crash ==
    /\ proc = "open"
    /\ proc' = "panicked"
    /\ wf' = Idle
    /\ ret' = [op |-> "Crash", err |-> "nil"]
    /\ UNCHANGED <<db, issued, frags, used, codecVars, mailed, built, thr, dm>>

InitReassembly == InitEgress

NextReassembly ==
    \/ New
    \/ Crash
    \/ \E accounts \in AccountLists : CreateAccountBuckets(accounts)
    \/ \E a \in Accounts, b \in AccountBlocks : PutIngressBlock(a, b)
    \/ \E a \in Accounts, m \in MessageIDs : ReassemblyFetch(a, m)
    \/ ReassemblyStore
    \/ ReassemblyRemove

SpecReassembly == InitReassembly /\ [][NextReassembly]_vars

----------------------------------------------------------------------------
(* Goroutines calling PutEgressBlock at the same time: db.Update takes the *)
(* file's single writer lock, runs the closure on the current file and     *)
(* commits before it releases the lock                                     *)

\* the closure of PutEgressBlock run on file d: the file it commits and the
\* block ID it hands back
PutEgressBlockTx(d, b) ==
    LET d1      == CreateBucketIfNotExists(d, EgressBucketName)
        bucket  == NextSequence(d1[EgressBucketName])
        blockID == PutUint64(bucket.sequence)
        value   == ToBytes([b EXCEPT !.BlockID = blockID])
    IN  [err |-> "nil", val |-> blockID,
         db  |-> [d1 EXCEPT ![EgressBucketName] = BucketPut(bucket, blockID, value)]]

\* the calls of a goroutine that have returned: (arg, val) in call order
Returned(t) == IF "log" \in DOMAIN thr[t] THEN thr[t].log ELSE << >>

\* the goroutines inside a write transaction
Writers == {t \in Threads : thr[t].pc = "writing"}

\* goroutine t calls PutEgressBlock(b)
CallPutEgressBlock(t, b) ==
    /\ proc = "open"
    /\ thr[t].pc = "idle"
    /\ Len(Returned(t)) < MaxSeq
    /\ thr' = [thr EXCEPT ![t] = [pc |-> "called", arg |-> b, log |-> Returned(t)]]
    /\ UNCHANGED <<storeVars, codecVars, mailed, wf, built, dm>>

\* a db.Update that starts its transaction without taking the writer lock
BeginUpdate_NoLock(t) ==
    /\ thr[t].pc = "called"
    /\ HasBucket(db, EgressBucketName) => db[EgressBucketName].sequence < MaxSeq
    /\ thr' = [thr EXCEPT ![t] = [@ EXCEPT !.pc = "writing"] @@ [file |-> db]]
    /\ UNCHANGED <<storeVars, codecVars, mailed, wf, built, dm>>

\* db.Update: the writer lock is free, t takes it and its transaction
\* starts from the file as committed
BeginUpdate(t) ==
    /\ thr[t].pc = "called"
    /\ Writers = {}
    /\ HasBucket(db, EgressBucketName) => db[EgressBucketName].sequence < MaxSeq
    /\ thr' = [thr EXCEPT ![t] = [@ EXCEPT !.pc = "writing"] @@ [file |-> db]]
    /\ UNCHANGED <<storeVars, codecVars, mailed, wf, built, dm>>

\* the closure runs, the transaction commits, the lock is released and
\* PutEgressBlock returns the block ID
CommitUpdate(t) ==
    /\ thr[t].pc = "writing"
    /\ LET tx == PutEgressBlockTx(thr[t].file, thr[t].arg)
       IN  /\ db' = DbUpdate(db, tx)
           /\ ret' = [op |-> "PutEgressBlock", arg |-> thr[t].arg, err |-> "nil",
                      val |-> tx.val, by |-> t]
           /\ issued' = Append(issued, tx.val)
           /\ thr' = [thr EXCEPT ![t] =
                        [pc |-> "idle",
                         log |-> Append(thr[t].log, [arg |-> thr[t].arg, val |-> tx.val])]]
    /\ UNCHANGED <<proc, frags, used, codecVars, mailed, wf, built, dm>>

InitConcurrent == InitEgress

NextConcurrent ==
    \/ \E t \in Threads, b \in EgressInputs : CallPutEgressBlock(t, b)
    \/ \E t \in Threads : BeginUpdate(t)
    \/ \E t \in Threads : CommitUpdate(t)

SpecConcurrent == InitConcurrent /\ [][NextConcurrent]_vars

\* C17: PutEgressBlock calls of several goroutines are serialized: at most
\* one write transaction is in flight, the block IDs returned are pairwise
\* distinct, and every record of a returned call is stored under its own ID
C17_PutsSerialized ==
    /\ Cardinality(Writers) <= 1
    /\ \A t, u \in Threads :
          \A i \in 1..Len(Returned(t)), j \in 1..Len(Returned(u)) :
              (t # u \/ i # j) => Returned(t)[i].val # Returned(u)[j].val
    /\ \A t \in Threads : \A i \in 1..Len(Returned(t)) :
          LET c == Returned(t)[i]
          IN  /\ c.val \in EgressKeys(db)
              /\ db[EgressBucketName].kv[c.val] = ToBytes([c.arg EXCEPT !.BlockID = c.val])

\* both goroutines were inside PutEgressBlock at the same time, one held
\* the lock while the other waited, and both have returned
C17_Witness ==
    /\ \A t \in Threads : Len(Returned(t)) >= 1 /\ thr[t].pc = "idle"
    /\ ret.op = "PutEgressBlock"
    /\ Returned("t1")[1].val = PutUint64(2)
    /\ Returned("t2")[1].val = PutUint64(1)
    /\ Returned("t1")[1].arg # Returned("t2")[1].arg

----------------------------------------------------------------------------
(* DeleteMessages seen from other goroutines: its loop commits one         *)
(* deleteMessage transaction per item, and other calls run between them    *)

\* the index lists handed to DeleteMessages in the delete runs
DeleteLists == {<<2, 1>>, <<1, 2, 3>>}

\* the keys of an account's mailbox bucket
MailKeys(d, accountName) ==
    IF HasBucket(d, Pop3BucketName(accountName))
    THEN DOMAIN d[Pop3BucketName(accountName)].kv ELSE {}

\* DeleteMessages is called: the loop is before its first item
DeleteMessagesCall(accountName, items) ==
    /\ proc = "open"
    /\ dm.pc = "idle"
    /\ dm' = [pc |-> "deleting", account |-> accountName, items |-> items, done |-> 0,
              start |-> MailKeys(db, accountName)]
    /\ UNCHANGED <<storeVars, codecVars, mailed, wf, built, thr>>

\* one pass of the loop: deleteMessage commits the delete of the next item
deleteMessage ==
    /\ proc = "open"
    /\ dm.pc = "deleting" /\ dm.done < Len(dm.items)
    /\ LET tx == deleteMessageTx(db, dm.account, dm.items[dm.done + 1])
       IN  /\ db' = DbUpdate(db, tx)
           /\ IF tx.err = "nil"
              THEN /\ dm' = [dm EXCEPT !.done = @ + 1]
                   /\ UNCHANGED <<proc, ret>>
              ELSE /\ dm' = Idle
                   /\ proc' = "panicked"
                   /\ ret' = [op |-> "DeleteMessages", account |-> dm.account,
                              items |-> dm.items, err |-> tx.err]
    /\ UNCHANGED <<issued, frags, used, codecVars, mailed, wf, built, thr>>

\* a DeleteMessages that runs its whole loop in one transaction: a failure
\* takes back the deletes of the earlier items too
deleteMessageFails_OneTransaction ==
    /\ proc = "open"
    /\ dm.pc = "deleting" /\ dm.done < Len(dm.items)
    /\ HasBucket(db, Pop3BucketName(dm.account))
    /\ db' = [db EXCEPT ![Pop3BucketName(dm.account)].kv =
                 [k \in DOMAIN @ \cup dm.start |-> IF k \in DOMAIN @ THEN @[k] ELSE << >>]]
    /\ ret' = [op |-> "DeleteMessages", account |-> dm.account, items |-> dm.items,
               failed |-> dm.done + 1, start |-> dm.start, err |-> "transaction failed"]
    /\ dm' = Idle
    /\ UNCHANGED <<proc, issued, frags, used, codecVars, mailed, wf, built, thr>>

\* one pass of the loop whose transaction fails (b.Delete or the commit
\* returns an error): db.Update rolls this transaction back, deleteMessage
\* returns the error and DeleteMessages returns it without going on
deleteMessageFails ==
    /\ proc = "open"
    /\ dm.pc = "deleting" /\ dm.done < Len(dm.items)
    /\ HasBucket(db, Pop3BucketName(dm.account))
    /\ LET tx == [err |-> "transaction failed",
                  db  |-> deleteMessageTx(db, dm.account, dm.items[dm.done + 1]).db]
       IN  /\ db' = DbUpdate(db, tx)
           /\ ret' = [op |-> "DeleteMessages", account |-> dm.account, items |-> dm.items,
                      failed |-> dm.done + 1, start |-> dm.start, err |-> tx.err]
    /\ dm' = Idle
    /\ UNCHANGED <<proc, issued, frags, used, codecVars, mailed, wf, built, thr>>

\* the loop is over: DeleteMessages returns nil
DeleteMessagesReturn ==
    /\ proc = "open"
    /\ dm.pc = "deleting" /\ dm.done = Len(dm.items)
    /\ ret' = [op |-> "DeleteMessages", account |-> dm.account, items |-> dm.items,
               err |-> "nil"]
    /\ dm' = Idle
    /\ UNCHANGED <<db, proc, issued, frags, used, codecVars, mailed, wf, built, thr>>

\* the process is started again after a panic: no call is in progress
Restart ==
    /\ New
    /\ dm = Idle

InitDelete == InitEgress

NextDelete ==
    \/ Restart
    \/ CreateAccountBuckets(<<"alice">>)
    \/ \E m \in AccountMailInputs :
          /\ HasBucket(db, Pop3BucketName("alice")) =>
                db[Pop3BucketName("alice")].sequence < MaxSeq
          /\ PutMessage("alice", m)
    \/ Messages("alice")
    \/ \E items \in DeleteLists : DeleteMessagesCall("alice", items)
    \/ deleteMessage
    \/ deleteMessageFails
    \/ DeleteMessagesReturn

SpecDelete == InitDelete /\ [][NextDelete]_vars

\* C19: DeleteMessages deletes item by item, one transaction each: a pass
\* that succeeds removes exactly its own key; when the pass for the k-th
\* item fails the call returns that error, the items before k that were
\* stored when the call began stay deleted, and the k-th and later items
\* that were stored are still stored
C19_DeletesOneByOne ==
    [][/\ (dm.pc = "deleting" /\ dm'.pc = "deleting" /\ dm'.done = dm.done + 1) =>
            MailKeys(db', dm.account) =
                MailKeys(db, dm.account) \ {Itoa(dm.items[dm.done + 1])}
       /\ (dm.pc = "deleting" /\ ret'.op = "DeleteMessages" /\ ret' # ret
             /\ ret'.err = "transaction failed") =>
            /\ ret'.failed = dm.done + 1
            /\ dm'.pc = "idle"
            /\ \A i \in 1..Len(dm.items) :
                  LET key == Itoa(dm.items[i])
                  IN  IF i < ret'.failed
                      THEN key \in dm.start => key \notin MailKeys(db', dm.account)
                      ELSE key \in MailKeys(db, dm.account) =>
                              key \in MailKeys(db', dm.account)]_vars

\* Messages ran between two passes of DeleteMessages(<<1, 2, 3>>) and
\* returned a mailbox from which only the first item was gone
C19_PrefixObserved ==
    /\ ret.op = "Messages" /\ ret.err = "nil"
    /\ dm.pc = "deleting" /\ dm.items = <<1, 2, 3>> /\ dm.done = 1
    /\ dm.start = {Itoa(1), Itoa(2), Itoa(3)}
    /\ Len(ret.val) = 2
    /\ MailKeys(db, dm.account) = {Itoa(2), Itoa(3)}

\* the pass for the second of three stored items failed: the call returned
\* the error, the first item is gone, the second and third are stored
C19_Witness ==
    /\ ret.op = "DeleteMessages" /\ ret.err = "transaction failed"
    /\ ret.items = <<1, 2, 3>> /\ ret.failed = 2
    /\ ret.start = {Itoa(1), Itoa(2), Itoa(3)}
    /\ dm.pc = "idle"
    /\ MailKeys(db, ret.account) = {Itoa(2), Itoa(3)}

----------------------------------------------------------------------------
(* A mailbox that is only put into and listed                              *)

InitMailbox == InitEgress

NextMailbox ==
    \/ CreateAccountBuckets(<<"alice">>)
    \/ \E m \in MailInputs :
          /\ HasBucket(db, Pop3BucketName("alice"))
          /\ db[Pop3BucketName("alice")].sequence < MaxMailbox
          /\ PutMessage("alice", m)
    \/ Messages("alice")

SpecMailbox == InitMailbox /\ [][NextMailbox]_vars

\* the place in a listing of n messages of the message put i-th, when the
\* listing follows the byte order of the decimal strings of 1..n
DecimalPlace(i, n) == 1 + Cardinality({j \in 1..n : BytesLess(Itoa(j), Itoa(i))})

\* C20: with no deletions, Messages lists the message put i-th at the place
\* its decimal-string key has in byte order; from ten messages on the
\* message put 10th is listed before the message put 2nd
C20_ListedInDecimalByteOrder ==
    (ret.op = "Messages" /\ ret.err = "nil") =>
        LET put == mailed[ret.account]
            n   == Len(put)
        IN  /\ Len(ret.val) = n
            /\ \A i \in 1..n : ret.val[DecimalPlace(i, n)] = put[i]
            /\ n >= 10 => /\ DecimalPlace(10, n) < DecimalPlace(2, n)
                          /\ ret.val[2] = put[10]

\* ten messages were put, the 10th differs from the 2nd, and Messages
\* returned the 10th in second place: the listing is not the insertion order
C20_Witness ==
    /\ ret.op = "Messages" /\ ret.err = "nil"
    /\ Len(mailed[ret.account]) = 10
    /\ mailed[ret.account][10] # mailed[ret.account][2]
    /\ ret.val[2] = mailed[ret.account][10]
    /\ ret.val # mailed[ret.account]

----------------------------------------------------------------------------
(* Codec runs: a record is encoded, the bytes are decoded again *)

InitCodec ==
    /\ InitStoreVars
    /\ rec \in StorageBlocks
    /\ enc = << >>
    /\ dec = NoResult

Encode ==
    /\ enc = << >>
    /\ enc' = ToBytes(rec)
    /\ UNCHANGED <<rec, dec, storeVars, flowVars>>

Decode ==
    /\ enc # << >>
    /\ dec = NoResult
    /\ dec' = [op |-> "FromBytes"] @@ FromBytes(enc)
    /\ UNCHANGED <<rec, enc, storeVars, flowVars>>

NextCodec == Encode \/ Decode

SpecCodec == InitCodec /\ [][NextCodec]_vars

\* C7: a decoded encoding equals the record that was encoded, field for field
C7_RoundTrip ==
    dec.op = "FromBytes" => dec.err = "nil" /\ dec.val = rec

====
